---- MODULE Spec2Model ----
(***************************************************************************)
(* A model of fp-ts-std's Isomorphism module (src/src/Isomorphism.ts).      *)
(*                                                                         *)
(* The module is a handful of pure functions over three kinds of structure *)
(* (Isomorphism, monocle-ts Iso, fp-ts Semigroup).  The model keeps the     *)
(* structures a caller holds in a heap of objects (an object's identity is  *)
(* its index), starts from the structures the caller built, and has one     *)
(* action per call the caller can make.  A function-valued field is the     *)
(* table of the function over the (finite) carrier of its argument type.    *)
(***************************************************************************)
EXTENDS Integers, Sequences, FiniteSets, TLC

\* Bounds of the model.
MaxElems == 5          \* elements of the carriers A and B taken together, for any pair of arrows
MaxCard == 3           \* elements of each carrier, for a pair of mutually inverse arrows
MaxAlloc == 2          \* structures allocated in one run, for any pair of arrows
MaxAllocLossless == 3  \* structures allocated in one run, for a pair of mutually inverse arrows

VARIABLES
    A,      \* the carrier the type parameter A is instantiated with
    B,      \* the carrier the type parameter B is instantiated with
    heap,   \* the structures that exist: the caller's, then the allocated ones
    made,   \* made[r]: the call that returned heap[r]
    call    \* the last call made: operation, arguments, returned value

vars == <<A, B, heap, made, call>>

Carrier(t) == IF t = "A" THEN A ELSE B

----------------------------------------------------------------------------
(* The structures.                                                         *)

\* type Isomorphism<X, Y> = { to: (x: X) => Y, from: (x: Y) => X }
Isomorphism(X, Y, to, from) ==
    [kind |-> "Isomorphism", dom |-> X, cod |-> Y, to |-> to, from |-> from]

\* monocle-ts Iso<X, Y>: { get: (x: X) => Y, reverseGet: (x: Y) => X }
Iso(X, Y, get, reverseGet) ==
    [kind |-> "Iso", dom |-> X, cod |-> Y, get |-> get, reverseGet |-> reverseGet]

\* fp-ts Semigroup<X>: { concat: (x: X, y: X) => X }
Semigroup(X, concat) ==
    [kind |-> "Semigroup", of |-> X, concat |-> concat]

----------------------------------------------------------------------------
(* The functions of the module.                                            *)

\* The arrows under each other's name
getIsoIsoToSwapped(x) == Iso(x.dom, x.cod, x.from, x.to)
getIsoIsoFromSwapped(x) == Isomorphism(x.dom, x.cod, x.reverseGet, x.get)

\* getIsoIso().to : x => ({ get: x.to, reverseGet: x.from })
getIsoIsoTo(x) == Iso(x.dom, x.cod, x.to, x.from)

\* getIsoIso().from : x => ({ to: x.get, from: x.reverseGet })
getIsoIsoFrom(x) == Isomorphism(x.dom, x.cod, x.get, x.reverseGet)

\* toIso = x => getIsoIso().to(x)
toIso(x) == getIsoIsoTo(x)

\* fromIso = x => getIsoIso().from(x)
fromIso(x) == getIsoIsoFrom(x)

\* Nothing swapped; and one arrow written to both fields
reverseNothing(x) == Isomorphism(x.cod, x.dom, x.to, x.from)
reverseOneArrow(x) == Isomorphism(x.cod, x.dom, x.from, x.from)

\* reverse = x => ({ to: x.from, from: x.to })
reverse(x) == Isomorphism(x.cod, x.dom, x.from, x.to)

\* The arguments in the other order; y read twice; the result not brought back
derivedConcatFlipped(x, S, y, z) == x.to[S.concat[<<x.from[z], x.from[y]>>]]
derivedConcatTwice(x, S, y, z) == x.to[S.concat[<<x.from[y], x.from[y]>>]]
derivedConcatNoTo(x, S, y, z) == S.concat[<<x.from[y], x.from[z]>>]

\* The closure deriveSemigroup(x)(S) puts in the field concat:
\* (y, z) => x.to(S.concat(x.from(y), x.from(z)))
derivedConcat(x, S, y, z) == x.to[S.concat[<<x.from[y], x.from[z]>>]]

\* concat defined only on what x.to reaches
deriveSemigroupOnImage(x, S) ==
    LET I == { x.to[a] : a \in DOMAIN x.to }
    IN  Semigroup(x.cod, [p \in I \X I |-> derivedConcat(x, S, p[1], p[2])])

\* deriveSemigroup = x => S => ({ concat: (y, z) => ... })
deriveSemigroup(x, S) ==
    Semigroup(x.cod,
              [p \in (DOMAIN x.from) \X (DOMAIN x.from) |->
                  derivedConcat(x, S, p[1], p[2])])

\* deriveSemigroup(x) alone: the closure S => ..., which holds on to x
Deriver(r) == [kind |-> "Deriver", x |-> r]

----------------------------------------------------------------------------
(* The structures a caller starts from.                                    *)

\* The doc test's isomorphism between boolean and Binary = 0 | 1
isoBoolBinary ==
    Isomorphism("A", "B",
                [x \in BOOLEAN |-> IF x THEN 1 ELSE 0],
                [n \in {0, 1} |-> n # 0])

\* fp-ts/boolean's SemigroupAll: concat = (x, y) => x && y
SemigroupAll ==
    Semigroup("A", [p \in BOOLEAN \X BOOLEAN |-> p[1] /\ p[2]])

Elems(n) == 0 .. (n - 1)

Min(a, b) == IF a <= b THEN a ELSE b
Max(a, b) == IF a <= b THEN b ELSE a

\* Binary operations over Elems(n): every one of them while the carrier has
\* at most two elements, a family of associative and non-associative ones
\* beyond.
BinOps(n) ==
    IF n <= 2
    THEN [Elems(n) \X Elems(n) -> Elems(n)]
    ELSE { [p \in Elems(n) \X Elems(n) |-> Min(p[1], p[2])],
           [p \in Elems(n) \X Elems(n) |-> Max(p[1], p[2])],
           [p \in Elems(n) \X Elems(n) |-> p[1]],
           [p \in Elems(n) \X Elems(n) |-> p[2]],
           [p \in Elems(n) \X Elems(n) |-> (p[1] + p[2]) % n],
           [p \in Elems(n) \X Elems(n) |-> (p[1] * p[2]) % n],
           [p \in Elems(n) \X Elems(n) |-> (p[1] - p[2]) % n],
           [p \in Elems(n) \X Elems(n) |-> (n - 1) - Min(p[1], p[2])] }

\* The invariant the doc comment and the type's description ask of a pair of
\* arrows ("two reversible, lossless functions"): each undoes the other.
LeftInverse(to, from) == \A a \in DOMAIN to : from[to[a]] = a
RightInverse(to, from) == \A b \in DOMAIN from : to[from[b]] = b
Lossless(to, from) == LeftInverse(to, from) /\ RightInverse(to, from)

NoCall == [op |-> "none", args |-> <<>>, ret |-> 0]
ByCaller == [op |-> "caller", args |-> <<>>]
ByDocTest == [op |-> "doctest", args |-> <<>>]

\* The caller holds a pair of arrows, as an Isomorphism or as an Iso, and a
\* Semigroup over A.
Start(X, Y, f, g, c, k, by) ==
    /\ A = X
    /\ B = Y
    /\ heap = << IF k = "Iso" THEN Iso("A", "B", f, g)
                              ELSE Isomorphism("A", "B", f, g),
                 Semigroup("A", c) >>
    /\ made = << by, by >>
    /\ call = NoCall

\* Any pair of arrows, lossless or not, held as one of the kinds K
AnyArrows(K) ==
    \E n \in 1 .. (MaxElems - 1) :
    \E m \in 1 .. (MaxElems - n) :
    \E f \in [Elems(n) -> Elems(m)] :
    \E g \in [Elems(m) -> Elems(n)] :
    \E c \in BinOps(n) :
    \E k \in K :
        Start(Elems(n), Elems(m), f, g, c, k, ByCaller)

\* A pair of mutually inverse arrows, held as one of the kinds K
LosslessArrows(K) ==
    \E n \in 1 .. MaxCard :
    \E f \in [Elems(n) -> Elems(n)] :
    \E g \in [Elems(n) -> Elems(n)] :
    \E c \in BinOps(n) :
    \E k \in K :
        /\ Lossless(f, g)
        /\ Start(Elems(n), Elems(n), f, g, c, k, ByCaller)

\* The doc test
InitDoc ==
    Start(BOOLEAN, {0, 1}, isoBoolBinary.to, isoBoolBinary.from,
          SemigroupAll.concat, "Isomorphism", ByDocTest)

Init ==
    \/ AnyArrows({"Isomorphism", "Iso"})
    \/ LosslessArrows({"Isomorphism", "Iso"})
    \/ InitDoc

\* A caller that derives Semigroups
InitDerive == AnyArrows({"Isomorphism"}) \/ InitDoc

\* A caller that keeps to the invariant and derives Semigroups
InitLossless == LosslessArrows({"Isomorphism"}) \/ InitDoc

\* A caller that holds a pair of arrows, as an Isomorphism or as an Iso, and
\* no Semigroup
StartPair(X, Y, f, g, k) ==
    /\ A = X
    /\ B = Y
    /\ heap = << IF k = "Iso" THEN Iso("A", "B", f, g)
                              ELSE Isomorphism("A", "B", f, g) >>
    /\ made = << ByCaller >>
    /\ call = NoCall

InitPair ==
    \/ \E n \in 1 .. (MaxElems - 1) :
       \E m \in 1 .. (MaxElems - n) :
       \E f \in [Elems(n) -> Elems(m)] :
       \E g \in [Elems(m) -> Elems(n)] :
       \E k \in {"Isomorphism", "Iso"} :
           StartPair(Elems(n), Elems(m), f, g, k)
    \/ \E n \in 1 .. MaxCard :
       \E f \in [Elems(n) -> Elems(n)] :
       \E g \in [Elems(n) -> Elems(n)] :
       \E k \in {"Isomorphism", "Iso"} :
           /\ Lossless(f, g)
           /\ StartPair(Elems(n), Elems(n), f, g, k)

----------------------------------------------------------------------------
(* The calls.                                                              *)

Refs == 1 .. Len(heap)

Is(r, k) == heap[r].kind = k

\* The arrows the caller started from
CallerTo == IF Is(1, "Iso") THEN heap[1].get ELSE heap[1].to
CallerFrom == IF Is(1, "Iso") THEN heap[1].reverseGet ELSE heap[1].from

\* The structures the module's functions allocated
Allocated == { k \in Refs : made[k].op \notin {"caller", "doctest"} }

CanAlloc ==
    Cardinality(Allocated) < (IF Lossless(CallerTo, CallerFrom)
                              THEN MaxAllocLossless ELSE MaxAlloc)

\* A call returns a structure it allocated
Return(op, args, obj) ==
    /\ heap' = Append(heap, obj)
    /\ made' = Append(made, [op |-> op, args |-> args])
    /\ call' = [op |-> op, args |-> args, ret |-> Len(heap) + 1]
    /\ UNCHANGED <<A, B>>

\* The argument itself relabelled, and returned
ToIsoInPlace(r) ==
    /\ CanAlloc
    /\ Is(r, "Isomorphism")
    /\ heap' = [heap EXCEPT ![r] = toIso(heap[r])]
    /\ made' = made
    /\ call' = [op |-> "toIso", args |-> <<r>>, ret |-> r]
    /\ UNCHANGED <<A, B>>

\* toIso(x)
ToIso(r) ==
    /\ CanAlloc
    /\ Is(r, "Isomorphism")
    /\ Return("toIso", <<r>>, toIso(heap[r]))

\* fromIso(x)
FromIso(r) ==
    /\ CanAlloc
    /\ Is(r, "Iso")
    /\ Return("fromIso", <<r>>, fromIso(heap[r]))

\* reverse(x)
Reverse(r) ==
    /\ CanAlloc
    /\ Is(r, "Isomorphism")
    /\ Return("reverse", <<r>>, reverse(heap[r]))

\* deriveSemigroup(x), kept by the caller: the deriver
Derive(r) ==
    /\ CanAlloc
    /\ Is(r, "Isomorphism")
    /\ Return("deriver", <<r>>, Deriver(r))

\* d(S), for a deriver d
Apply(d, s) ==
    /\ CanAlloc
    /\ Is(d, "Deriver")
    /\ Is(s, "Semigroup")
    /\ heap[s].of = heap[heap[d].x].dom
    /\ Return("apply", <<d, s>>, deriveSemigroup(heap[heap[d].x], heap[s]))

\* deriveSemigroup(x)(S) in one expression: the deriver in between is dropped
DeriveSemigroup(r, s) ==
    /\ CanAlloc
    /\ Is(r, "Isomorphism")
    /\ Is(s, "Semigroup")
    /\ heap[s].of = heap[r].dom
    /\ Return("deriveSemigroup", <<r, s>>, deriveSemigroup(heap[r], heap[s]))

\* D.concat(y, z), for a D that deriveSemigroup made: the closure of line 86
Concat(s, y, z) ==
    /\ Is(s, "Semigroup")
    /\ made[s].op \in {"apply", "deriveSemigroup"}
    /\ call' = [op |-> "concat", args |-> <<s, y, z>>,
                ret |-> heap[s].concat[<<y, z>>]]
    /\ UNCHANGED <<A, B, heap, made>>

Next ==
    \/ \E r \in Refs : ToIso(r)
    \/ \E r \in Refs : FromIso(r)
    \/ \E r \in Refs : Reverse(r)
    \/ \E r \in Refs : Derive(r)
    \/ \E d, s \in Refs : Apply(d, s)
    \/ \E r, s \in Refs : DeriveSemigroup(r, s)
    \/ \E s \in Refs : /\ Is(s, "Semigroup")
                       /\ \E y, z \in Carrier(heap[s].of) : Concat(s, y, z)

\* Any caller, any call
Spec == Init /\ [][Next]_vars

\* The calls that need no Semigroup
NextPair ==
    \/ \E r \in Refs : ToIso(r)
    \/ \E r \in Refs : FromIso(r)
    \/ \E r \in Refs : Reverse(r)

\* A caller with a pair of arrows alone
SpecPair == InitPair /\ [][NextPair]_vars

\* Deriving a Semigroup and calling the concat of the Semigroup just derived,
\* on any two elements
NextDerive ==
    \/ \E r, s \in Refs : DeriveSemigroup(r, s)
    \/ \E s \in Refs : /\ Is(s, "Semigroup")
                       /\ call.op = "deriveSemigroup"
                       /\ call.ret = s
                       /\ \E y, z \in Carrier(heap[s].of) : Concat(s, y, z)

\* A caller with any pair of arrows that derives Semigroups and uses them
SpecDerive == InitDerive /\ [][NextDerive]_vars

\* Reversing and deriving
NextLossless ==
    \/ \E r \in Refs : Reverse(r)
    \/ \E r, s \in Refs : DeriveSemigroup(r, s)

\* A caller with mutually inverse arrows that derives Semigroups both ways
SpecLossless == InitLossless /\ [][NextLossless]_vars

\* The doc test's structures under any call
SpecDoc == InitDoc /\ [][Next]_vars

----------------------------------------------------------------------------
(* What the claims speak of.                                               *)

\* The Semigroups deriveSemigroup made, and what each was made from
Derived == { k \in Refs : made[k].op \in {"apply", "deriveSemigroup"} }
IsoRefOf(k) ==
    IF made[k].op = "apply" THEN heap[made[k].args[1]].x ELSE made[k].args[1]
IsoOf(k) == heap[IsoRefOf(k)]
SemigroupRefOf(k) == made[k].args[2]
SemigroupOf(k) == heap[SemigroupRefOf(k)]

\* The structures a call made, and the structure it was called on
MadeBy(op) == { k \in Refs : made[k].op = op }
ArgOf(k) == made[k].args[1]

\* f and g are the same function over X
SameOn(f, g, X) ==
    /\ DOMAIN f = X
    /\ DOMAIN g = X
    /\ \A a \in X : f[a] = g[a]

Associative(c, X) ==
    \A x, y, z \in X : c[<<c[<<x, y>>], z>>] = c[<<x, c[<<y, z>>]>>]

\* f is the identity (of a carrier of numbers: the doc test's arrows go between
\* booleans and numbers, and neither is one)
IsIdentity(f) == made[1].op = "caller" /\ \A a \in DOMAIN f : f[a] = a

Image(f) == { f[a] : a \in DOMAIN f }

----------------------------------------------------------------------------
(* The claims.                                                             *)

\* C1: a Semigroup D that deriveSemigroup(i)(S) made combines b1 and b2 into
\* i.to(S.concat(i.from(b1), i.from(b2))), b1's image first, and so does a
\* call of D.concat; in the doc test, over boolean and Binary with S = AND,
\* concat(0, 1) is 0 and concat(1, 1) is 1.
C1_DerivedConcat ==
    /\ \A k \in Derived :
         \A b1, b2 \in Carrier(IsoOf(k).cod) :
            heap[k].concat[<<b1, b2>>] =
               IsoOf(k).to[SemigroupOf(k).concat[<<IsoOf(k).from[b1],
                                                   IsoOf(k).from[b2]>>]]
    /\ call.op = "concat" =>
         LET k == call.args[1]
             b1 == call.args[2]
             b2 == call.args[3]
         IN  /\ call.ret =
                  IsoOf(k).to[SemigroupOf(k).concat[<<IsoOf(k).from[b1],
                                                      IsoOf(k).from[b2]>>]]
             /\ (made[1].op = "doctest" /\ IsoRefOf(k) = 1 /\ SemigroupRefOf(k) = 2)
                  => /\ (b1 = 0 /\ b2 = 1) => call.ret = 0
                     /\ (b1 = 1 /\ b2 = 1) => call.ret = 1

\* The doc test's first assertion has run: concat(0, 1) returned 0.
C1_Witness ==
    /\ made[1].op = "doctest"
    /\ call.op = "concat"
    /\ IsoRefOf(call.args[1]) = 1
    /\ SemigroupRefOf(call.args[1]) = 2
    /\ call.args[2] = 0
    /\ call.args[3] = 1
    /\ call.ret = 0

\* C2: when the arrows of i undo each other both ways and S.concat is
\* associative over i's source type, the operation deriveSemigroup(i)(S) made
\* is associative over i's target type.
C2_Associative ==
    \A k \in Derived :
        ( /\ Lossless(IsoOf(k).to, IsoOf(k).from)
          /\ Associative(SemigroupOf(k).concat, Carrier(IsoOf(k).dom)) )
        => Associative(heap[k].concat, Carrier(IsoOf(k).cod))

\* A Semigroup derived along a bijection between three-element carriers that
\* is not the identity, from an associative operation that is not commutative.
C2_Witness ==
    \E k \in Derived :
        /\ made[1].op = "caller"
        /\ Lossless(IsoOf(k).to, IsoOf(k).from)
        /\ Cardinality(Carrier(IsoOf(k).dom)) = 3
        /\ \E a \in Carrier(IsoOf(k).dom) : IsoOf(k).to[a] # a
        /\ Associative(SemigroupOf(k).concat, Carrier(IsoOf(k).dom))
        /\ \E a, b \in Carrier(IsoOf(k).dom) :
              SemigroupOf(k).concat[<<a, b>>] # SemigroupOf(k).concat[<<b, a>>]

\* C3: fromIso(toIso(i)) has the arrows of i, and toIso(fromIso(o)) has the
\* arrows of o, over the whole of A and of B, for any pair of arrows.
C3_RoundTrip ==
    /\ \A k \in MadeBy("fromIso") :
         made[ArgOf(k)].op = "toIso" =>
            LET i == heap[ArgOf(ArgOf(k))]
            IN  /\ SameOn(heap[k].to, i.to, Carrier(i.dom))
                /\ SameOn(heap[k].from, i.from, Carrier(i.cod))
    /\ \A k \in MadeBy("toIso") :
         made[ArgOf(k)].op = "fromIso" =>
            LET o == heap[ArgOf(ArgOf(k))]
            IN  /\ SameOn(heap[k].get, o.get, Carrier(o.dom))
                /\ SameOn(heap[k].reverseGet, o.reverseGet, Carrier(o.cod))

\* Both round trips have been made from arrows that do not undo each other:
\* fromIso(toIso(i)) for an Isomorphism i, toIso(fromIso(o)) for the caller's Iso o.
C3_WitnessIso ==
    \E k \in MadeBy("fromIso") :
        /\ made[ArgOf(k)].op = "toIso"
        /\ ~ LeftInverse(heap[k].to, heap[k].from)
        /\ ~ RightInverse(heap[k].to, heap[k].from)

C3_WitnessOptic ==
    \E k \in MadeBy("toIso") :
        /\ made[ArgOf(k)].op = "fromIso"
        /\ made[ArgOf(ArgOf(k))].op = "caller"
        /\ ~ LeftInverse(heap[k].get, heap[k].reverseGet)

\* C4: toIso(i) has i.to under get and i.from under reverseGet, fromIso(o) has
\* o.get under to and o.reverseGet under from, never the other way round; so
\* for the identity pair toIso(i) and fromIso(toIso(i)) are the identity pair.
C4_Relabel ==
    /\ \A k \in MadeBy("toIso") :
         LET i == heap[ArgOf(k)]
         IN  /\ SameOn(heap[k].get, i.to, Carrier(i.dom))
             /\ SameOn(heap[k].reverseGet, i.from, Carrier(i.cod))
             /\ IsIdentity(i.to) => IsIdentity(heap[k].get)
             /\ IsIdentity(i.from) => IsIdentity(heap[k].reverseGet)
    /\ \A k \in MadeBy("fromIso") :
         LET o == heap[ArgOf(k)]
         IN  /\ SameOn(heap[k].to, o.get, Carrier(o.dom))
             /\ SameOn(heap[k].from, o.reverseGet, Carrier(o.cod))
             /\ IsIdentity(o.get) => IsIdentity(heap[k].to)
             /\ IsIdentity(o.reverseGet) => IsIdentity(heap[k].from)

\* toIso(i) and fromIso(toIso(i)) have been made for the identity pair over
\* three elements.
C4_Witness ==
    \E k \in MadeBy("fromIso") :
        /\ made[ArgOf(k)].op = "toIso"
        /\ Cardinality(A) = 3
        /\ IsIdentity(heap[ArgOf(ArgOf(k))].to)
        /\ IsIdentity(heap[ArgOf(ArgOf(k))].from)

\* C5: reverse(i) swaps the arrows: its to is i.from over the whole of B and
\* its from is i.to over the whole of A.
C5_Reverse ==
    \A k \in MadeBy("reverse") :
        LET i == heap[ArgOf(k)]
        IN  /\ SameOn(heap[k].to, i.from, Carrier(i.cod))
            /\ SameOn(heap[k].from, i.to, Carrier(i.dom))

\* reverse was called on arrows between carriers of different sizes.
C5_Witness ==
    \E k \in MadeBy("reverse") :
        /\ Cardinality(A) # Cardinality(B)
        /\ \E b \in Carrier(heap[k].dom) : heap[k].to[b] # 0

\* C6: reverse(reverse(i)) has the arrows of i over the whole of A and of B,
\* for any pair of arrows.
C6_Involution ==
    \A k \in MadeBy("reverse") :
        made[ArgOf(k)].op = "reverse" =>
            LET i == heap[ArgOf(ArgOf(k))]
            IN  /\ SameOn(heap[k].to, i.to, Carrier(i.dom))
                /\ SameOn(heap[k].from, i.from, Carrier(i.cod))

\* reverse was called on what reverse returned, for arrows that do not undo
\* each other.
C6_Witness ==
    \E k \in MadeBy("reverse") :
        /\ made[ArgOf(k)].op = "reverse"
        /\ ~ LeftInverse(heap[k].to, heap[k].from)
        /\ ~ RightInverse(heap[k].to, heap[k].from)

\* What one call leaves alone: every structure that existed keeps its fields,
\* a call of concat allocates nothing, and any other call returns a structure
\* that did not exist before.
CallFrame ==
    /\ \A r \in Refs : heap'[r] = heap[r] /\ made'[r] = made[r]
    /\ call'.op = "concat" => heap' = heap
    /\ call'.op # "concat" =>
          /\ Len(heap') = Len(heap) + 1
          /\ call'.ret = Len(heap')
          /\ call'.ret \notin Refs

\* Two Semigroups derived from the same Isomorphism and the same Semigroup
\* are the same operation, whichever calls were made in between and whether
\* a kept deriver or a fresh deriveSemigroup(i) made them.
SameArgumentsSameResult ==
    \A k1, k2 \in Derived :
        (IsoRefOf(k1) = IsoRefOf(k2) /\ SemigroupRefOf(k1) = SemigroupRefOf(k2))
        => heap[k1].concat = heap[k2].concat

Broken == { k \in Derived : ~ Lossless(IsoOf(k).to, IsoOf(k).from) }
BrokenFromAssociative ==
    { k \in Broken : Associative(SemigroupOf(k).concat, Carrier(IsoOf(k).dom)) }

\* C8 as stated: along arrows that break the invariant, the operation derived
\* from an associative one is not associative.
C8_AlwaysLosesAssociativity ==
    \A k \in BrokenFromAssociative :
        ~ Associative(heap[k].concat, Carrier(IsoOf(k).cod))

\* C8, amended: along arrows that break the invariant deriveSemigroup still
\* returns a Semigroup whose concat is a total operation over the target
\* type, and a call of it returns a value of that type; nothing is checked.
\* (That associativity can be lost, not that it always is: C8_Witness.)
C8_ReturnsNormally ==
    \A k \in Broken :
        LET C == Carrier(IsoOf(k).cod)
        IN  /\ heap[k].kind = "Semigroup"
            /\ heap[k].concat \in [C \X C -> C]
            /\ (call.op = "concat" /\ call.args[1] = k) => call.ret \in C

\* Along arrows that break the invariant an associative operation gave one
\* that is not associative, and its concat was called.
C8_Witness ==
    \E k \in BrokenFromAssociative :
        /\ ~ Associative(heap[k].concat, Carrier(IsoOf(k).cod))
        /\ call.op = "concat"
        /\ call.args[1] = k

\* C9: when from(to(a)) = a for every a of the source type (to(from(b)) = b
\* not asked) and S.concat is associative, the operation deriveSemigroup(i)(S)
\* made is associative; and every value a derived operation returns is in the
\* image of i.to.
C9_LeftInverseSuffices ==
    \A k \in Derived :
        /\ ( /\ LeftInverse(IsoOf(k).to, IsoOf(k).from)
             /\ Associative(SemigroupOf(k).concat, Carrier(IsoOf(k).dom)) )
           => Associative(heap[k].concat, Carrier(IsoOf(k).cod))
        /\ \A y, z \in Carrier(IsoOf(k).cod) :
              heap[k].concat[<<y, z>>] \in Image(IsoOf(k).to)

\* A Semigroup derived along a to that is not onto, with from(to(a)) = a,
\* from an associative operation that is not commutative; concat was called.
C9_Witness ==
    \E k \in Derived :
        /\ LeftInverse(IsoOf(k).to, IsoOf(k).from)
        /\ Image(IsoOf(k).to) # Carrier(IsoOf(k).cod)
        /\ Cardinality(Carrier(IsoOf(k).dom)) >= 2
        /\ Associative(SemigroupOf(k).concat, Carrier(IsoOf(k).dom))
        /\ \E a, b \in Carrier(IsoOf(k).dom) :
              SemigroupOf(k).concat[<<a, b>>] # SemigroupOf(k).concat[<<b, a>>]
        /\ call.op = "concat"
        /\ call.args[1] = k

\* The Semigroups made as deriveSemigroup(reverse(i))(deriveSemigroup(i)(S))
ThereAndBack ==
    { k \in Derived :
        /\ made[IsoRefOf(k)].op = "reverse"
        /\ SemigroupRefOf(k) \in Derived
        /\ IsoRefOf(SemigroupRefOf(k)) = ArgOf(IsoRefOf(k)) }

\* C10: for mutually inverse arrows i and any operation S over A,
\* deriveSemigroup(reverse(i))(deriveSemigroup(i)(S)) is S.concat over A.
C10_ThereAndBack ==
    \A k \in ThereAndBack :
        LET i == heap[ArgOf(IsoRefOf(k))]
            S == SemigroupOf(SemigroupRefOf(k))
        IN  Lossless(i.to, i.from)
            => SameOn(heap[k].concat, S.concat,
                      Carrier(i.dom) \X Carrier(i.dom))

\* The way there and back was made over three elements, along arrows that are
\* not their own inverses, from an operation that is not associative.
C10_Witness ==
    \E k \in ThereAndBack :
        LET i == heap[ArgOf(IsoRefOf(k))]
            S == SemigroupOf(SemigroupRefOf(k))
        IN  /\ made[1].op = "caller"
            /\ Lossless(i.to, i.from)
            /\ Cardinality(Carrier(i.dom)) = 3
            /\ \E a \in Carrier(i.dom) : i.to[i.to[a]] # a
            /\ ~ Associative(S.concat, Carrier(i.dom))

====
